---- MODULE Spec2Model ----
(***************************************************************************)
(* State-machine model of the React lab exercises:                         *)
(*   Exercise 1.1  CounterProvider and its consumers (useState, context)   *)
(*   Exercise 1.2  usePersistentState     (localStorage-backed state)      *)
(*   Exercise 1.3  TimerComponent, DataFetcher, WindowResizeListener,      *)
(*                 SubscriptionManager    (effects with cleanup)           *)
(*   Exercise 4.1  RegistrationForm       (validation, async submit)       *)
(*   Exercise 4.2  ErrorBoundary          (fallback, error count)          *)
(* Each exercise is an independent component tree, so each has its own     *)
(* specification over its own variables; the variables of the other        *)
(* exercises stay at their initial values.                                 *)
(***************************************************************************)
EXTENDS Integers, Sequences, FiniteSets, TLC

VARIABLES
  \* ---- Exercise 1.1: CounterProvider
  count,          \* the committed value of useState(0)
  updateQueue,    \* setCount calls enqueued since the last render
  calls,          \* history: every counter action invoked so far, in call order
  view,           \* consumer -> the count its last render read and the number it shows
  notified,       \* history: the consumers the last step re-rendered, in order
  renderCount,    \* history: consumer -> number of re-renders since the mount
  lastUse,        \* the last call of useCounter: where it was made and its result
  \* ---- Exercise 1.2: usePersistentState
  storage,        \* window.localStorage: key -> text, or NULL when no entry
  storageMode,    \* environment: "ok", "quota" (setItem throws), "denied" (all throw)
  cellOpen,       \* a component using the hook is mounted
  cellKey,        \* the key argument of the mounted hook
  state,          \* the hook's useState value
  effectPending,  \* the persist effect is scheduled ([key, state] changed)
  lastOp,         \* what the cell did last: "none", "open", "set", "clear", "render"
  openItem,       \* what getItem returned at the last open ("<threw>" if it threw)
  consoleError,   \* the console.error call of the hook's last step:
                  \* "none", "read" (line 28) or "write" (line 38)
  crashed,        \* an exception escaped the hook
  durable,        \* history: key -> the value last persisted successfully, or NONE
  sets,           \* number of setState calls issued (bounded)
  reads,          \* history: getItem calls made by the hook of the mounted cell
  external,       \* history: number of writes to the storage by another page
  \* ---- Exercise 1.3: Exercise13Complete and TimerComponent
  showTimer,      \* Exercise13Complete: useState(true)
  mounted,        \* Exercise13Complete: useState(true)
  seconds,        \* TimerComponent: useState(0)
  isActive,       \* TimerComponent: useState(false)
  logs,           \* TimerComponent: useState([]), the seconds of each entry
  title,          \* document.title
  intervals,      \* the ids of the intervals setInterval created and nobody cleared
  e1Handle,       \* `interval` in the closure of Effect 1's registered cleanup (0: null)
  timersCreated,  \* number of setInterval calls so far (the last id handed out)
  timerPending,   \* a tick was rendered and its effects ([seconds]) are not flushed yet
  tornDown,       \* history: the interval ids whose Effect 1 cleanup has run
  lastTick,       \* history: the id of the interval whose callback ran last (0: none)
  activation,     \* history: the effects that registered a cleanup, oldest setup first
  disposal,       \* history: the cleanups run by the last unmount, in order
  titleWrites,    \* history: the writes to document.title of the last step, in order
  ranEffects,     \* history: the effects (1..4) whose setup the last step ran
  logsQueue,      \* the setLogs updates enqueued and not rendered yet
  \* ---- Exercise 1.3: DataFetcher
  dfMounted,      \* DataFetcher is mounted
  userId,         \* useState(1)
  user,           \* useState(null): the id of the user object, 0 for null
  loading,        \* useState(false)
  dfTimers,       \* pending setTimeout callbacks of the fetch effect: [gen, uid]
  dfAborted,      \* the runs of the effect whose AbortController is aborted
  dfGen,          \* number of runs of the fetch effect; the latest run
  dfDone,         \* history: the runs whose callback called setUser / setLoading
  \* ---- Exercise 4.2: ErrorBoundaryDemo and AdvancedErrorBoundaryExample
  shouldError,    \* ErrorBoundaryDemo: useState(false)
  errors,         \* AdvancedErrorBoundaryExample: useState({section1: false, ...})
  boundary,       \* boundary -> this.state of the mounted ErrorBoundary instance
  rendered,       \* boundary -> what its last render returned: "child" or "fallback"
  caught,         \* history: boundary -> componentDidCatch calls on the instance
  \* ---- Exercise 4.1: RegistrationForm
  formData,       \* useState({email: '', password: '', confirmPassword: '', ...})
  formErrors,     \* the `errors` state: field -> message, "" when the key is absent
  isSubmitting,   \* useState(false)
  submitSuccess,  \* useState(false)
  request,        \* the simulated API call in flight: <<formData it was made with>>
  successTimers,  \* the pending 3 s timers, named by the submit that set them
  onSubmitCalls,  \* history: the arguments of every onSubmit call, in order
  submits,        \* history: number of submits that passed the validation
  formEvent,      \* history: the handler or callback that ran last
  \* ---- Exercise 1.3: WindowResizeListener
  wrMounted,      \* WindowResizeListener is mounted
  windowSize,     \* useState({width: window.innerWidth, height: window.innerHeight})
  innerSize,      \* environment: window.innerWidth x window.innerHeight
  listeners,      \* the 'resize' listeners registered on window (handleResize ids)
  wrHandler,      \* `handleResize` in the closure of the registered cleanup
  handlersCreated, \* number of handleResize functions created so far
  wrRemoved,      \* history: the handlers whose cleanup has run
  \* ---- Exercise 1.3: SubscriptionManager
  smMounted,      \* SubscriptionManager is mounted
  subscriptions,  \* useState([])
  status,         \* useState('idle')
  subTimers,      \* pending setTimeout callbacks of the effect: [gen, n]
  smGen,          \* number of runs of the effect; the latest run
  smDisposed,     \* history: the runs whose cleanup has run
  \* ---- Exercise 1.3: cleanups run a second time
  teardownRepeats \* history: number of times a cleanup was run again

counterVars == <<count, updateQueue, calls, view, notified, renderCount, lastUse>>
persistVars == <<storage, storageMode, cellOpen, cellKey, state, effectPending,
                 lastOp, openItem, consoleError, crashed, durable, sets, reads,
                 external>>
timerVars == <<showTimer, mounted, seconds, isActive, logs, title, intervals,
               e1Handle, timersCreated, timerPending, tornDown, lastTick,
               activation, disposal, titleWrites, ranEffects, logsQueue>>
fetchVars == <<dfMounted, userId, user, loading, dfTimers, dfAborted, dfGen, dfDone>>
boundaryVars == <<shouldError, errors, boundary, rendered, caught>>
formVars == <<formData, formErrors, isSubmitting, submitSuccess, request, formEvent,
              successTimers, onSubmitCalls, submits>>
resizeVars == <<wrMounted, windowSize, innerSize, listeners, wrHandler,
                handlersCreated, wrRemoved>>
subsVars == <<smMounted, subscriptions, status, subTimers, smGen, smDisposed>>
teardownVars == <<teardownRepeats>>
vars == <<counterVars, persistVars, timerVars, fetchVars, boundaryVars, formVars, resizeVars, subsVars, teardownVars>>

(***************************************************************************)
(* Bounds of the model.                                                    *)
(***************************************************************************)
MaxCalls == 4
MaxSets == 2
MaxSeconds == 4
MaxTimers == 3
MaxFetches == 4
MaxExternal == 2
MaxErrors == 2
MaxSubmits == 2
MaxMounts == 2
MaxRepeats == 2

(***************************************************************************)
(* Exercise 1.1: CounterProvider                                           *)
(*                                                                         *)
(* A setCount call enqueues an update; React applies the queued updates in *)
(* order at the next render.  An update is either an updater function      *)
(* (fn = TRUE: prev => prev + arg) or a replacement value (fn = FALSE).    *)
(***************************************************************************)
CustomValues == {-1, 2}

\* The closure of the render that created the callbacks captures `c`, the
\* count of that render.
increment_stale(c) == [fn |-> FALSE, arg |-> c + 1]
increment(c) == [fn |-> TRUE, arg |-> 1]
decrement(c) == [fn |-> TRUE, arg |-> -1]
reset(c) == [fn |-> FALSE, arg |-> 0]
setCustomCount(c, value) == [fn |-> FALSE, arg |-> value]

\* React's basicStateReducer: typeof action === 'function' ? action(state) : action
basicStateReducer(prev, action) ==
  IF action.fn THEN prev + action.arg ELSE action.arg

\* React processes the update queue of a hook front to back.
RECURSIVE processUpdateQueue(_, _)
processUpdateQueue(queue, prev) ==
  IF queue = <<>> THEN prev
  ELSE processUpdateQueue(Tail(queue), basicStateReducer(prev, Head(queue)))

\* createContext() has no default value: useContext outside a provider
\* returns undefined.  A context value is modelled by its count and by
\* whether it is an object at all.
defaultValue == [provided |-> FALSE, count |-> 0]

\* the value object CounterProvider passes to CounterContext.Provider
providerValue(c) == [provided |-> TRUE, count |-> c]

useContext(hasProvider, value) == IF hasProvider THEN value ELSE defaultValue

\* useCounter without its check.
useCounter_nocheck(context) ==
  [threw |-> FALSE, message |-> "", context |-> context]

\* useCounter: if (!context) throw new Error(...); return context
useCounter(context) ==
  IF ~context.provided
  THEN [threw |-> TRUE,
        message |-> "useCounter must be used within CounterProvider",
        context |-> defaultValue]
  ELSE [threw |-> FALSE, message |-> "", context |-> context]

\* The consumers under CounterProvider in Exercise11Complete, in tree order.
Consumers == <<"CounterDisplay", "CounterControls", "CounterAdvancedDisplay">>
ConsumerSet == {Consumers[i] : i \in 1..Len(Consumers)}

\* The render of a consumer under a provider whose count is c: the count it
\* reads through useCounter and the number it shows (CounterDisplay the count,
\* CounterAdvancedDisplay its square, CounterControls none).
renderConsumer(name, c) ==
  LET ctx == useCounter(useContext(TRUE, providerValue(c))).context IN
  [count |-> ctx.count,
   text |-> CASE name = "CounterDisplay" -> ctx.count
              [] name = "CounterAdvancedDisplay" -> ctx.count * ctx.count
              [] OTHER -> 0]

\* A render in which only CounterDisplay takes the new value.
renderTree_displayOnly(v, c) ==
  [v EXCEPT !["CounterDisplay"] = renderConsumer("CounterDisplay", c)]

\* A new value object reaches every consumer of the context.
renderTree(v, c) == [name \in ConsumerSet |-> renderConsumer(name, c)]

\* A render that never bails out.
bailout_never(prev, next) == FALSE

\* React bails out of a render whose state is Object.is-equal to the
\* previous one: the provider's output is dropped, no consumer re-renders.
bailout(prev, next) == prev = next

Call(op, value, update) ==
  /\ Len(calls) < MaxCalls
  /\ updateQueue' = Append(updateQueue, update)
  /\ calls' = Append(calls, [op |-> op, value |-> value])
  /\ notified' = <<>>
  /\ UNCHANGED <<count, view, renderCount, lastUse>>

Increment == Call("increment", 0, increment(count))
Decrement == Call("decrement", 0, decrement(count))
Reset == Call("reset", 0, reset(count))
SetCustomCount == \E v \in CustomValues : Call("setCustomCount", v, setCustomCount(count, v))

\* The render that follows the event: the queue is folded into the new count
\* and, unless React bails out, every consumer re-renders with the new value.
CounterRender ==
  LET next == processUpdateQueue(updateQueue, count) IN
  /\ updateQueue # <<>>
  /\ count' = next
  /\ updateQueue' = <<>>
  /\ IF bailout(count, next)
     THEN /\ notified' = <<>>
          /\ UNCHANGED <<view, renderCount, lastUse>>
     ELSE /\ notified' = Consumers
          /\ view' = renderTree(view, next)
          /\ renderCount' = [name \in ConsumerSet |-> renderCount[name] + 1]
          /\ lastUse' = [inside |-> TRUE,
                         result |-> useCounter(useContext(TRUE, providerValue(next)))]
  /\ UNCHANGED calls

\* A component that is not under any CounterProvider calls useCounter.
UseCounterOutside ==
  /\ lastUse' = [inside |-> FALSE,
                 result |-> useCounter(useContext(FALSE, providerValue(count)))]
  /\ lastUse' # lastUse
  /\ notified' = <<>>
  /\ UNCHANGED <<count, updateQueue, calls, view, renderCount>>

CounterNext ==
  \/ (Increment /\ UNCHANGED <<persistVars, timerVars, fetchVars, boundaryVars, formVars, resizeVars, subsVars, teardownVars>>)
  \/ (Decrement /\ UNCHANGED <<persistVars, timerVars, fetchVars, boundaryVars, formVars, resizeVars, subsVars, teardownVars>>)
  \/ (Reset /\ UNCHANGED <<persistVars, timerVars, fetchVars, boundaryVars, formVars, resizeVars, subsVars, teardownVars>>)
  \/ (SetCustomCount /\ UNCHANGED <<persistVars, timerVars, fetchVars, boundaryVars, formVars, resizeVars, subsVars, teardownVars>>)
  \/ (CounterRender /\ UNCHANGED <<persistVars, timerVars, fetchVars, boundaryVars, formVars, resizeVars, subsVars, teardownVars>>)
  \/ (UseCounterOutside /\ UNCHANGED <<persistVars, timerVars, fetchVars, boundaryVars, formVars, resizeVars, subsVars, teardownVars>>)

(***************************************************************************)
(* Exercise 1.2: usePersistentState                                        *)
(*                                                                         *)
(* JavaScript values are named by tokens; the texts localStorage holds are *)
(* TLA+ strings.  JSON_stringify and JSON_parse are tabulated on them.     *)
(***************************************************************************)
Keys == {"todos", "formData"}
NULL == "<null>"            \* getItem(key) === null: no entry under key
UNDEF == "<undefined>"      \* the JavaScript value undefined, as a result
NONE == "<none>"            \* history only: nothing persisted
THREW == "<threw>"          \* history only: getItem threw

\* the values the model passes to setState; JSON.parse also yields "NULL"
JSValue == {"UNDEFINED", "NAN", "ZERO", "EMPTY_ARRAY", "ONE_TODO",
            "DEFAULT_FORM", "CYCLIC"}

\* Records that something other than the hook may have left in localStorage.
ForeignText == {"", "{oops"}

\* JSON.stringify(value): a text, undefined, or a TypeError (cyclic structure)
JSON_stringify(v) ==
  CASE v = "UNDEFINED"    -> [threw |-> FALSE, result |-> UNDEF]
    [] v = "NAN"          -> [threw |-> FALSE, result |-> "null"]
    [] v = "NULL"         -> [threw |-> FALSE, result |-> "null"]
    [] v = "ZERO"         -> [threw |-> FALSE, result |-> "0"]
    [] v = "EMPTY_ARRAY"  -> [threw |-> FALSE, result |-> "[]"]
    [] v = "ONE_TODO"     -> [threw |-> FALSE, result |-> "[{\"id\":1}]"]
    [] v = "DEFAULT_FORM" -> [threw |-> FALSE, result |-> "{\"name\":\"\"}"]
    [] v = "CYCLIC"       -> [threw |-> TRUE, result |-> UNDEF]

\* JSON.parse(text): a value, or a SyntaxError
JSON_parse(text) ==
  CASE text = "null"              -> [threw |-> FALSE, value |-> "NULL"]
    [] text = "0"                 -> [threw |-> FALSE, value |-> "ZERO"]
    [] text = "[]"                -> [threw |-> FALSE, value |-> "EMPTY_ARRAY"]
    [] text = "[{\"id\":1}]"      -> [threw |-> FALSE, value |-> "ONE_TODO"]
    [] text = "{\"name\":\"\"}"   -> [threw |-> FALSE, value |-> "DEFAULT_FORM"]
    [] OTHER                      -> [threw |-> TRUE, value |-> "UNDEFINED"]

\* setItem(key, x) stores String(x)
DOMString(x) == IF x = UNDEF THEN "undefined" ELSE x

\* `item ? ... : ...` on what getItem returned: null and "" are falsy
Truthy(item) == item # NULL /\ item # ""

\* the initialValue each component passes to the hook
initialValue(key) == IF key = "todos" THEN "EMPTY_ARRAY" ELSE "DEFAULT_FORM"

\* The lazy initializer with the branches of its conditional exchanged.
initializer_swapped(store, mode, key, init) ==
  IF mode = "denied"
  THEN [value |-> init, logged |-> TRUE, threw |-> FALSE, item |-> THREW]
  ELSE LET item == store[key] IN
       IF Truthy(item)
       THEN [value |-> init, logged |-> FALSE, threw |-> FALSE, item |-> item]
       ELSE [value |-> init, logged |-> TRUE, threw |-> FALSE, item |-> item]

\* The lazy initializer without its try/catch.
initializer_nocatch(store, mode, key, init) ==
  IF mode = "denied"
  THEN [value |-> init, logged |-> FALSE, threw |-> TRUE, item |-> THREW]
  ELSE LET item == store[key] IN
       IF Truthy(item)
       THEN IF JSON_parse(item).threw
            THEN [value |-> init, logged |-> FALSE, threw |-> TRUE, item |-> item]
            ELSE [value |-> JSON_parse(item).value, logged |-> FALSE,
                  threw |-> FALSE, item |-> item]
       ELSE [value |-> init, logged |-> FALSE, threw |-> FALSE, item |-> item]

\* The lazy initializer of useState.
initializer(store, mode, key, init) ==
  IF mode = "denied"
  THEN [value |-> init, logged |-> TRUE, threw |-> FALSE, item |-> THREW]
  ELSE LET item == store[key] IN
       IF Truthy(item)
       THEN IF JSON_parse(item).threw
            THEN [value |-> init, logged |-> TRUE, threw |-> FALSE, item |-> item]
            ELSE [value |-> JSON_parse(item).value, logged |-> FALSE,
                  threw |-> FALSE, item |-> item]
       ELSE [value |-> init, logged |-> FALSE, threw |-> FALSE, item |-> item]

\* whether the body of the persist effect throws inside its try block
WriteFails(st, mode) == JSON_stringify(st).threw \/ mode # "ok"

\* The persist effect without its try/catch.
saveEffect_nocatch(store, mode, key, st) ==
  IF WriteFails(st, mode)
  THEN [storage |-> store, logged |-> FALSE, threw |-> TRUE]
  ELSE [storage |-> [store EXCEPT ![key] = DOMString(JSON_stringify(st).result)],
        logged |-> FALSE, threw |-> FALSE]

\* The persist effect: try { setItem(key, JSON.stringify(state)) } catch { log }
saveEffect(store, mode, key, st) ==
  IF WriteFails(st, mode)
  THEN [storage |-> store, logged |-> TRUE, threw |-> FALSE]
  ELSE [storage |-> [store EXCEPT ![key] = DOMString(JSON_stringify(st).result)],
        logged |-> FALSE, threw |-> FALSE]

\* Mount of a component that calls usePersistentState(key, initialValue(key)):
\* the lazy initializer runs during the first render; the effect is scheduled.
Open(key) ==
  LET r == initializer(storage, storageMode, key, initialValue(key)) IN
  /\ ~cellOpen /\ ~crashed
  /\ cellOpen' = TRUE
  /\ cellKey' = key
  /\ state' = r.value
  /\ openItem' = r.item
  /\ consoleError' = IF r.logged THEN "read" ELSE "none"
  /\ crashed' = r.threw
  /\ effectPending' = TRUE
  /\ lastOp' = "open"
  /\ reads' = 1
  /\ UNCHANGED <<storage, storageMode, durable, sets, external>>

\* setState(v) of the pair the hook returns.  Object values are fresh
\* references, so the state changes and the effect is scheduled; setting a
\* primitive to the value it already has bails out of the render.
Primitive(v) == v \in {"UNDEFINED", "ZERO"}

\* The dependency list [key, state] of the persist effect: the effect is
\* scheduled again when the state is not Object.is-equal to the previous one.
depsChanged_keyOnly(prev, next) == FALSE
depsChanged(prev, next) == ~(Primitive(next) /\ next = prev)

SetState(v) ==
  /\ cellOpen /\ ~crashed /\ ~effectPending
  /\ sets < MaxSets
  /\ sets' = sets + 1
  /\ state' = v
  /\ effectPending' = depsChanged(state, v)
  /\ lastOp' = "set"
  /\ consoleError' = "none"
  /\ UNCHANGED <<storage, storageMode, cellOpen, cellKey, openItem, crashed,
                 durable, reads, external>>

\* clearAll of PersistentTodoList and handleReset of PersistentForm:
\* setState(<the default>) followed by localStorage.removeItem(key).  The
\* default is a fresh object, so the state changes and the effect is
\* scheduled.  When access to the storage is denied removeItem throws out of
\* the click handler, after the setState call.
Clear ==
  /\ cellOpen /\ ~crashed /\ ~effectPending
  /\ sets < MaxSets
  /\ sets' = sets + 1
  /\ state' = initialValue(cellKey)
  /\ effectPending' = depsChanged(state, initialValue(cellKey))
  /\ storage' = IF storageMode = "denied" THEN storage
                ELSE [storage EXCEPT ![cellKey] = NULL]
  /\ durable' = IF storageMode = "denied" THEN durable
                ELSE [durable EXCEPT ![cellKey] = NONE]
  /\ lastOp' = "clear"
  /\ consoleError' = "none"
  /\ UNCHANGED <<storageMode, cellOpen, cellKey, openItem, crashed, reads,
                 external>>

\* The effect of lines 34-40, run after the render that changed [key, state].
PersistEffect ==
  LET r == saveEffect(storage, storageMode, cellKey, state) IN
  /\ cellOpen /\ ~crashed /\ effectPending
  /\ effectPending' = FALSE
  /\ storage' = r.storage
  /\ consoleError' = IF r.logged THEN "write" ELSE "none"
  /\ crashed' = r.threw
  /\ durable' = [durable EXCEPT ![cellKey] =
                   IF r.logged \/ r.threw THEN NONE ELSE state]
  /\ UNCHANGED <<storageMode, cellOpen, cellKey, state, lastOp, openItem, sets,
                 reads, external>>

\* The component is unmounted (another exercise is selected in App).
Close ==
  /\ cellOpen /\ ~crashed /\ ~effectPending
  /\ cellOpen' = FALSE
  /\ lastOp' = "none"
  /\ consoleError' = "none"
  /\ UNCHANGED <<storage, storageMode, cellKey, state, effectPending, openItem,
                 crashed, durable, sets, reads, external>>

\* The environment: the storage starts or stops refusing writes or access.
\* Effects are flushed before the browser runs anything else, so the mode
\* does not change between a render and its effect.
StorageModeChange ==
  /\ ~effectPending
  /\ \E m \in {"ok", "quota", "denied"} :
       /\ m # storageMode
       /\ storageMode' = m
  /\ UNCHANGED <<storage, cellOpen, cellKey, state, effectPending, lastOp,
                 openItem, consoleError, crashed, durable, sets, reads, external>>

PersistNext ==
  \/ (\E k \in Keys : Open(k) /\ UNCHANGED <<counterVars, timerVars, fetchVars, boundaryVars, formVars, resizeVars, subsVars, teardownVars>>)
  \/ (\E v \in JSValue : SetState(v) /\ UNCHANGED <<counterVars, timerVars, fetchVars, boundaryVars, formVars, resizeVars, subsVars, teardownVars>>)
  \/ (Clear /\ UNCHANGED <<counterVars, timerVars, fetchVars, boundaryVars, formVars, resizeVars, subsVars, teardownVars>>)
  \/ (PersistEffect /\ UNCHANGED <<counterVars, timerVars, fetchVars, boundaryVars, formVars, resizeVars, subsVars, teardownVars>>)
  \/ (Close /\ UNCHANGED <<counterVars, timerVars, fetchVars, boundaryVars, formVars, resizeVars, subsVars, teardownVars>>)
  \/ (StorageModeChange /\ UNCHANGED <<counterVars, timerVars, fetchVars, boundaryVars, formVars, resizeVars, subsVars, teardownVars>>)

\* A later render of the hook that runs the lazy initializer again.
updateState_reinit(store, mode, key, st) ==
  [value |-> initializer(store, mode, key, initialValue(key)).value, reads |-> 1]

\* React's useState on a re-render: the state it holds is returned and the
\* initializer function is not called.
updateState(store, mode, key, st) == [value |-> st, reads |-> 0]

\* The component re-renders for a reason of its own (PersistentTodoList:
\* setInput on every keystroke in the text field).
Rerender ==
  LET r == updateState(storage, storageMode, cellKey, state) IN
  /\ cellOpen /\ ~crashed /\ ~effectPending
  /\ state' = r.value
  /\ reads' = reads + r.reads
  /\ effectPending' = (r.value # state)
  /\ lastOp' = "render"
  /\ consoleError' = "none"
  /\ UNCHANGED <<storage, storageMode, cellOpen, cellKey, openItem, crashed,
                 durable, sets, external>>

\* The records another page of the same origin may leave under a key
\* (NULL: it removes the entry).
ExternalText == {NULL, "{oops", "[{\"id\":1}]"}

\* Another page writes the entry of key k.  The hook registers no 'storage'
\* listener, so nothing of the cell runs.
ExternalWrite(k, text) ==
  /\ external < MaxExternal
  /\ text # storage[k]
  /\ external' = external + 1
  /\ storage' = [storage EXCEPT ![k] = text]
  /\ durable' = [durable EXCEPT ![k] = NONE]
  /\ UNCHANGED <<storageMode, cellOpen, cellKey, state, effectPending, lastOp,
                 openItem, consoleError, crashed, sets, reads>>

PersistExtNext ==
  \/ (Rerender /\ UNCHANGED <<counterVars, timerVars, fetchVars, boundaryVars, formVars, resizeVars, subsVars, teardownVars>>)
  \/ (\E k \in Keys, text \in ExternalText :
        ExternalWrite(k, text) /\ UNCHANGED <<counterVars, timerVars, fetchVars, boundaryVars, formVars, resizeVars, subsVars, teardownVars>>)

(***************************************************************************)
(* Exercise 1.3: TimerComponent inside Exercise13Complete                  *)
(*                                                                         *)
(* React runs the effects of a commit in declaration order, all cleanups   *)
(* of the effects whose dependencies changed before their setups, and on   *)
(* unmount the registered cleanups in declaration order.  A click handler  *)
(* is rendered and its effects are flushed before anything else runs; the  *)
(* effects of a render caused by a timer callback are flushed later, but   *)
(* before the next render.  A click that arrives in between finds them     *)
(* flushed before its handler runs (React 17 and earlier) or only when the *)
(* render of its updates starts, after the handler enqueued them (React 18 *)
(* and later); the sources do not pin the version, so both can happen.     *)
(***************************************************************************)
LabTitle == [text |-> "React Lab 5", n |-> 0]
TimerTitle(n) == [text |-> "Timer: <n>s", n |-> n]

TimerMounted == mounted /\ showTimer

\* Effect 1, cleanup: if (interval) clearInterval(interval)
e1Cleanup_noclear(live, handle) == live
e1Cleanup(live, handle) == IF handle # 0 THEN live \ {handle} ELSE live

\* Effect 1, setup: let interval = null; if (isActive) interval = setInterval(...)
\* `id` is the id setInterval returns; the result's handle is the `interval`
\* the returned cleanup closes over.
e1Setup_nohandle(live, active, id) ==
  IF active THEN [live |-> live \cup {id}, handle |-> 0]
  ELSE [live |-> live, handle |-> 0]
e1Setup(live, active, id) ==
  IF active THEN [live |-> live \cup {id}, handle |-> id]
  ELSE [live |-> live, handle |-> 0]

\* The effects of TimerComponent that return a cleanup, in declaration order:
\* Effect 1 (interval) and Effect 4 (document.title).
TimerCleanups_noTitle == <<1>>
TimerCleanups == <<1, 4>>

Ran(seq) == {seq[i] : i \in 1..Len(seq)}
Handles(h) == IF h # 0 THEN {h} ELSE {}

\* `e` has just run its setup: it becomes the most recently activated effect
Activate(order, e) == Append(SelectSeq(order, LAMBDA x : x # e), e)

\* Effect 1 with seconds added to its dependency list.
Deps_e1Seconds(e) ==
  CASE e = 1 -> {"isActive", "seconds"}
    [] e = 2 -> {"seconds"}
    [] e = 3 -> {"seconds", "isActive"}
    [] e = 4 -> {"seconds"}

\* The dependency lists of Effects 1 to 4 (lines 39, 49, 56, 64).
Deps(e) ==
  CASE e = 1 -> {"isActive"}
    [] e = 2 -> {"seconds"}
    [] e = 3 -> {"seconds", "isActive"}
    [] e = 4 -> {"seconds"}

\* React re-runs an effect when one of its dependencies changed (Object.is);
\* `changed` is the set of state variables whose value the render changed.
Rerun(e, changed) == Deps(e) \cap changed # {}

\* Effect 4, cleanup: document.title = 'React Lab 5'
e4Cleanup(writes) == Append(writes, LabTitle)

\* Effect 4, setup: document.title = `Timer: ${seconds}s`
e4Setup(writes, n) == Append(writes, TimerTitle(n))

\* Effect 4 re-run with the new setup before the old cleanup.
e4Rerun_setupFirst(writes, n) == e4Cleanup(e4Setup(writes, n))

\* Effect 4 re-run: the cleanup of the previous run, then the new setup.
e4Rerun(writes, n) == e4Setup(e4Cleanup(writes), n)

\* what document.title holds after `writes`
TitleAfter(old, writes) == IF writes = <<>> THEN old ELSE writes[Len(writes)]

\* The entries the setLogs of Effect 2 appends after a render with seconds s
\* that changed `changed`: {timestamp, seconds}, named by its seconds.
e2Entries(changed, s) == IF Rerun(2, changed) /\ s > 0 THEN <<s>> ELSE <<>>

\* Effects 1, 3 and 4 of a commit of the mounted TimerComponent whose render
\* changed the state variables in `changed`; s and a are the seconds and
\* isActive of that render.  Effect 3 only writes to the console.
RunOtherEffects(changed, s, a) ==
  LET r1 == Rerun(1, changed)
      r4 == Rerun(4, changed)
      live == e1Cleanup(intervals, e1Handle)
      r == e1Setup(live, a, timersCreated + 1)
      w == IF r4 THEN e4Rerun(<<>>, s) ELSE <<>>
      a1 == IF r1 THEN Activate(activation, 1) ELSE activation IN
  /\ tornDown' = IF r1 THEN tornDown \cup Handles(e1Handle) ELSE tornDown
  /\ intervals' = IF r1 THEN r.live ELSE intervals
  /\ e1Handle' = IF r1 THEN r.handle ELSE e1Handle
  /\ timersCreated' = IF r1 /\ a THEN timersCreated + 1 ELSE timersCreated
  /\ titleWrites' = w
  /\ title' = TitleAfter(title, w)
  /\ activation' = IF r4 THEN Activate(a1, 4) ELSE a1
  /\ ranEffects' = {e \in 1..4 : Rerun(e, changed)}

\* The effects of such a commit; lg is the logs of its render.  The render
\* that the setLogs of Effect 2 causes changes no dependency.
RunEffects(changed, s, a, lg) ==
  /\ logs' = lg \o e2Entries(changed, s)
  /\ RunOtherEffects(changed, s, a)

\* A click on Start / Pause: setIsActive(!isActive); [isActive] changed, so
\* Effect 1 is cleaned up and set up again (Effect 3 re-runs, it only logs).
StartPause ==
  /\ TimerMounted /\ ~timerPending /\ logsQueue = <<>>
  /\ isActive \/ timersCreated < MaxTimers
  /\ isActive' = ~isActive
  /\ RunEffects({"isActive"}, seconds, ~isActive, logs)
  /\ UNCHANGED <<showTimer, mounted, seconds, timerPending, lastTick, disposal,
                 logsQueue>>

\* A click on Reset: setSeconds(0); setLogs([]); setIsActive(false).
\* Effect 1 re-runs when isActive was true, Effects 2 and 4 when seconds was
\* not 0; Effect 2 logs nothing for seconds = 0.
TimerReset ==
  LET changed == (IF isActive THEN {"isActive"} ELSE {})
                   \cup (IF seconds # 0 THEN {"seconds"} ELSE {}) IN
  /\ TimerMounted /\ ~timerPending /\ logsQueue = <<>>
  /\ seconds' = 0
  /\ isActive' = FALSE
  /\ RunEffects(changed, 0, FALSE, <<>>)
  /\ UNCHANGED <<showTimer, mounted, timerPending, lastTick, disposal, logsQueue>>

\* The callback of interval i runs: setSeconds(seconds => seconds + 1), and
\* the component re-renders.  A setState on an unmounted component is ignored.
Tick(i) ==
  /\ i \in intervals
  /\ ~timerPending /\ logsQueue = <<>>
  /\ lastTick' = i
  /\ IF TimerMounted
     THEN /\ seconds < MaxSeconds
          /\ seconds' = seconds + 1
          /\ timerPending' = TRUE
     ELSE UNCHANGED <<seconds, timerPending>>
  /\ titleWrites' = <<>>
  /\ ranEffects' = {}
  /\ UNCHANGED <<showTimer, mounted, isActive, logs, title, intervals, e1Handle,
                 timersCreated, tornDown, activation, disposal, logsQueue>>

\* The effects of the render of a tick, whose render changed seconds:
\* Effect 2 appends a log entry (seconds > 0), Effect 4 resets the title in
\* its cleanup and writes the new one in its setup.
TimerFlush ==
  /\ TimerMounted /\ timerPending
  /\ timerPending' = FALSE
  /\ RunEffects({"seconds"}, seconds, isActive, logs)
  /\ UNCHANGED <<showTimer, mounted, seconds, isActive, lastTick, disposal,
                 logsQueue>>

\* The setLogs updates of a render, applied in the order they were enqueued.
RECURSIVE processLogs(_, _)
processLogs(queue, lg) ==
  IF queue = <<>> THEN lg
  ELSE processLogs(Tail(queue),
                   IF Head(queue).op = "set" THEN Head(queue).arg
                   ELSE lg \o Head(queue).arg)

\* A click on Reset while the effects of a tick's render are pending and
\* React flushes them only when it starts the render of the handler's
\* updates: setLogs([]) is enqueued first, the setLogs of Effect 2 (run with
\* the seconds of the tick's render) after it.
ResetBeforeFlush ==
  /\ TimerMounted /\ timerPending /\ logsQueue = <<>>
  /\ timerPending' = FALSE
  /\ logsQueue' = <<[op |-> "set", arg |-> <<>>],
                    [op |-> "append", arg |-> e2Entries({"seconds"}, seconds)]>>
  /\ RunOtherEffects({"seconds"}, seconds, isActive)
  /\ UNCHANGED <<showTimer, mounted, seconds, isActive, logs, lastTick, disposal>>

\* The render of the updates of that Reset and of the effects flushed before
\* it, and the effects of this render.
ResetRender ==
  LET changed == (IF isActive THEN {"isActive"} ELSE {})
                   \cup (IF seconds # 0 THEN {"seconds"} ELSE {}) IN
  /\ TimerMounted /\ logsQueue # <<>>
  /\ seconds' = 0
  /\ isActive' = FALSE
  /\ logsQueue' = <<>>
  /\ RunEffects(changed, 0, FALSE, processLogs(logsQueue, logs))
  /\ UNCHANGED <<showTimer, mounted, timerPending, lastTick, disposal>>

\* TimerComponent leaves the tree: React runs the registered cleanups.
TimerUnmount ==
  /\ disposal' = TimerCleanups
  /\ intervals' = IF 1 \in Ran(TimerCleanups)
                  THEN e1Cleanup(intervals, e1Handle) ELSE intervals
  /\ tornDown' = IF 1 \in Ran(TimerCleanups)
                 THEN tornDown \cup Handles(e1Handle) ELSE tornDown
  /\ titleWrites' = IF 4 \in Ran(TimerCleanups) THEN e4Cleanup(<<>>) ELSE <<>>
  /\ title' = TitleAfter(title, titleWrites')
  /\ ranEffects' = {}
  /\ e1Handle' = 0
  /\ seconds' = 0 /\ isActive' = FALSE /\ logs' = <<>>
  /\ UNCHANGED <<timersCreated, timerPending, lastTick, activation, logsQueue>>

\* TimerComponent enters the tree: fresh state, then Effects 1 to 4 run.
TimerMount ==
  LET r == e1Setup(intervals, FALSE, timersCreated + 1) IN
  /\ seconds' = 0 /\ isActive' = FALSE /\ logs' = <<>>
  /\ intervals' = r.live
  /\ e1Handle' = r.handle
  /\ titleWrites' = e4Setup(<<>>, 0)
  /\ title' = TitleAfter(title, titleWrites')
  /\ ranEffects' = {1, 2, 3, 4}
  /\ activation' = <<1, 4>>
  /\ disposal' = <<>>
  /\ UNCHANGED <<timersCreated, timerPending, tornDown, lastTick, logsQueue>>

Remount(before, after) ==
  IF before /\ ~after THEN TimerUnmount
  ELSE IF ~before /\ after THEN TimerMount
  ELSE UNCHANGED <<seconds, isActive, logs, title, intervals, e1Handle,
                   timersCreated, timerPending, tornDown, lastTick, activation,
                   disposal, titleWrites, ranEffects, logsQueue>>

\* Exercise13Complete: the Hide / Show Timer button
ToggleShowTimer ==
  /\ ~timerPending /\ logsQueue = <<>>
  /\ showTimer' = ~showTimer
  /\ UNCHANGED mounted
  /\ Remount(TimerMounted, mounted /\ ~showTimer)

\* Exercise13Complete: the Unmount / Mount All Components button
ToggleMounted ==
  /\ ~timerPending /\ logsQueue = <<>>
  /\ mounted' = ~mounted
  /\ UNCHANGED showTimer
  /\ Remount(TimerMounted, ~mounted /\ showTimer)

TimerNext ==
  \/ (StartPause /\ UNCHANGED <<counterVars, persistVars, fetchVars, boundaryVars, formVars, resizeVars, subsVars, teardownVars>>)
  \/ (TimerReset /\ UNCHANGED <<counterVars, persistVars, fetchVars, boundaryVars, formVars, resizeVars, subsVars, teardownVars>>)
  \/ (\E i \in intervals : Tick(i) /\ UNCHANGED <<counterVars, persistVars, fetchVars, boundaryVars, formVars, resizeVars, subsVars, teardownVars>>)
  \/ (TimerFlush /\ UNCHANGED <<counterVars, persistVars, fetchVars, boundaryVars, formVars, resizeVars, subsVars, teardownVars>>)
  \/ (ResetBeforeFlush /\ UNCHANGED <<counterVars, persistVars, fetchVars, boundaryVars, formVars, resizeVars, subsVars, teardownVars>>)
  \/ (ResetRender /\ UNCHANGED <<counterVars, persistVars, fetchVars, boundaryVars, formVars, resizeVars, subsVars, teardownVars>>)
  \/ (ToggleShowTimer /\ UNCHANGED <<counterVars, persistVars, fetchVars, boundaryVars, formVars, resizeVars, subsVars, teardownVars>>)
  \/ (ToggleMounted /\ UNCHANGED <<counterVars, persistVars, fetchVars, boundaryVars, formVars, resizeVars, subsVars, teardownVars>>)

(***************************************************************************)
(* Exercise 1.3: DataFetcher                                               *)
(***************************************************************************)
UserIds == {1, 2, 3}

\* The cleanup of the fetch effect left out (nothing returned).
dfCleanup_none(timers, aborted, gen) == [timers |-> timers, aborted |-> aborted]

\* The cleanup of run `gen`: clearTimeout(timer); abortController.abort()
dfCleanup(timers, aborted, gen) ==
  [timers |-> {t \in timers : t.gen # gen}, aborted |-> aborted \cup {gen}]

\* The setup of the fetch effect for `uid`: a new AbortController,
\* setLoading(true), setError(null), setTimeout(callback, 1500).
dfSetup(timers, gen, uid) == timers \cup {[gen |-> gen, uid |-> uid]}

\* onChange of the input: setUserId(Number(e.target.value)); [userId] changed,
\* so the running effect is cleaned up and a new one is set up.
ChangeUserId(b) ==
  LET c == dfCleanup(dfTimers, dfAborted, dfGen) IN
  /\ dfMounted
  /\ b # userId
  /\ dfGen < MaxFetches
  /\ userId' = b
  /\ dfGen' = dfGen + 1
  /\ dfAborted' = c.aborted
  /\ dfTimers' = dfSetup(c.timers, dfGen + 1, b)
  /\ loading' = TRUE
  /\ UNCHANGED <<dfMounted, user, dfDone>>

mockUser_first(uid) == 1

\* mockUser = {id: userId, ...} with the userId of the run's closure; a user
\* object is named by its id.
mockUser(uid) == uid

\* The setTimeout callback of run t.gen: unless its signal is aborted it calls
\* setUser(mockUser) and setLoading(false), which React ignores after unmount.
FetchTimeout(t) ==
  /\ t \in dfTimers
  /\ dfTimers' = dfTimers \ {t}
  /\ IF t.gen \notin dfAborted
     THEN /\ dfDone' = dfDone \cup {t.gen}
          /\ user' = IF dfMounted THEN mockUser(t.uid) ELSE user
          /\ loading' = IF dfMounted THEN FALSE ELSE loading
     ELSE UNCHANGED <<dfDone, user, loading>>
  /\ UNCHANGED <<dfMounted, userId, dfAborted, dfGen>>

\* Unmount All Components
FetchUnmount ==
  LET c == dfCleanup(dfTimers, dfAborted, dfGen) IN
  /\ dfMounted
  /\ dfMounted' = FALSE
  /\ dfAborted' = c.aborted
  /\ dfTimers' = c.timers
  /\ UNCHANGED <<userId, user, loading, dfGen, dfDone>>

\* Mount All Components: fresh state, then the effect runs for userId 1
FetchMount ==
  /\ ~dfMounted
  /\ dfGen < MaxFetches
  /\ dfMounted' = TRUE
  /\ userId' = 1
  /\ user' = 0
  /\ loading' = TRUE
  /\ dfGen' = dfGen + 1
  /\ dfTimers' = dfSetup(dfTimers, dfGen + 1, 1)
  /\ UNCHANGED <<dfAborted, dfDone>>

FetchNext ==
  \/ (\E b \in UserIds : ChangeUserId(b) /\ UNCHANGED <<counterVars, persistVars, timerVars, boundaryVars, formVars, resizeVars, subsVars, teardownVars>>)
  \/ (\E t \in dfTimers : FetchTimeout(t) /\ UNCHANGED <<counterVars, persistVars, timerVars, boundaryVars, formVars, resizeVars, subsVars, teardownVars>>)
  \/ (FetchUnmount /\ UNCHANGED <<counterVars, persistVars, timerVars, boundaryVars, formVars, resizeVars, subsVars, teardownVars>>)
  \/ (FetchMount /\ UNCHANGED <<counterVars, persistVars, timerVars, boundaryVars, formVars, resizeVars, subsVars, teardownVars>>)

(***************************************************************************)
(* Exercise 1.3: WindowResizeListener                                      *)
(***************************************************************************)
Sizes == {"1024x768", "800x600"}

\* React ignores a state update of a component that is not mounted.
setStateOf_always(isMounted, old, new) == new
setStateOf(isMounted, old, new) == IF isMounted THEN new ELSE old

\* The cleanup of the listener effect left out.
wrCleanup_none(registered, handler) == registered

\* cleanup: window.removeEventListener('resize', handleResize)
wrCleanup(registered, handler) == registered \ {handler}

\* setup: window.addEventListener('resize', handleResize)
wrSetup(registered, handler) == registered \cup {handler}

\* The window is resized: every registered handleResize calls setWindowSize
\* of the instance that created it.
WindowResize(size) ==
  /\ size # innerSize
  /\ innerSize' = size
  /\ windowSize' = IF listeners = {} THEN windowSize
                   ELSE setStateOf(wrMounted /\ wrHandler \in listeners,
                                   windowSize, size)
  /\ UNCHANGED <<wrMounted, listeners, wrHandler, handlersCreated, wrRemoved>>

ResizeUnmount ==
  /\ wrMounted
  /\ wrMounted' = FALSE
  /\ listeners' = wrCleanup(listeners, wrHandler)
  /\ wrRemoved' = wrRemoved \cup {wrHandler}
  /\ UNCHANGED <<windowSize, innerSize, wrHandler, handlersCreated>>

ResizeMount ==
  /\ ~wrMounted
  /\ handlersCreated < MaxMounts
  /\ wrMounted' = TRUE
  /\ windowSize' = innerSize
  /\ handlersCreated' = handlersCreated + 1
  /\ wrHandler' = handlersCreated + 1
  /\ listeners' = wrSetup(listeners, handlersCreated + 1)
  /\ UNCHANGED <<innerSize, wrRemoved>>

(***************************************************************************)
(* Exercise 1.3: SubscriptionManager                                       *)
(***************************************************************************)
Topic(n) == CASE n = 1 -> "Topic A" [] n = 2 -> "Topic B" [] n = 3 -> "Topic C"

\* The cleanup without its clearTimeout calls.
smCleanup_noclear(timers, st, gen, isMounted) ==
  [timers |-> timers, status |-> IF isMounted THEN "unsubscribed" ELSE st]

\* cleanup of run gen: clearTimeout(sub1); clearTimeout(sub2);
\* clearTimeout(sub3); setStatus('unsubscribed').  isMounted tells whether
\* the instance of that run is mounted when the cleanup runs.
smCleanup(timers, st, gen, isMounted) ==
  [timers |-> {t \in timers : t.gen # gen},
   status |-> setStateOf(isMounted, st, "unsubscribed")]

\* setup of run gen: setStatus('subscribing') and three timeouts
smSetup(timers, gen) == timers \cup {[gen |-> gen, n |-> n] : n \in 1..3}

\* The timeout n of run t.gen fires (500, 1000 and 1500 ms: in this order):
\* a topic is appended, and the third sets the status.
SubTimeout(t) ==
  LET live == smMounted /\ t.gen = smGen IN
  /\ t \in subTimers
  /\ \A u \in subTimers : u.gen = t.gen => u.n >= t.n
  /\ subTimers' = subTimers \ {t}
  /\ subscriptions' = setStateOf(live, subscriptions,
                                 Append(subscriptions, Topic(t.n)))
  /\ status' = IF t.n = 3 THEN setStateOf(live, status, "subscribed")
               ELSE status
  /\ UNCHANGED <<smMounted, smGen, smDisposed>>

\* Unmount: the cleanup runs while the instance is being removed.
SubsUnmount ==
  LET c == smCleanup(subTimers, status, smGen, FALSE) IN
  /\ smMounted
  /\ smMounted' = FALSE
  /\ subTimers' = c.timers
  /\ status' = c.status
  /\ smDisposed' = smDisposed \cup {smGen}
  /\ UNCHANGED <<subscriptions, smGen>>

\* Mount: fresh state, then the effect runs.
SubsMount ==
  /\ ~smMounted
  /\ smGen < MaxMounts
  /\ smMounted' = TRUE
  /\ smGen' = smGen + 1
  /\ subscriptions' = <<>>
  /\ status' = "subscribing"
  /\ subTimers' = smSetup(subTimers, smGen + 1)
  /\ UNCHANGED smDisposed

(***************************************************************************)
(* Exercise 1.3: Exercise13Complete as a whole, and cleanups that are run  *)
(* again after they have run.                                              *)
(***************************************************************************)
\* Unmount All Components: the four components leave the tree together.
UnmountAll ==
  /\ mounted
  /\ ToggleMounted /\ FetchUnmount /\ ResizeUnmount /\ SubsUnmount

\* Mount All Components
MountAll ==
  /\ ~mounted
  /\ ToggleMounted /\ FetchMount /\ ResizeMount /\ SubsMount

\* The cleanup of Effect 1 that cleared interval h runs again.
TimerTeardownAgain(h) ==
  /\ h \in tornDown
  /\ teardownRepeats < MaxRepeats
  /\ teardownRepeats' = teardownRepeats + 1
  /\ intervals' = e1Cleanup(intervals, h)
  /\ UNCHANGED <<showTimer, mounted, seconds, isActive, logs, title, e1Handle,
                 timersCreated, timerPending, tornDown, lastTick, activation,
                 disposal, titleWrites, ranEffects, logsQueue>>

\* The cleanup of run g of the fetch effect runs again.
FetchTeardownAgain(g) ==
  LET c == dfCleanup(dfTimers, dfAborted, g) IN
  /\ g \in dfAborted
  /\ teardownRepeats < MaxRepeats
  /\ teardownRepeats' = teardownRepeats + 1
  /\ dfTimers' = c.timers
  /\ dfAborted' = c.aborted
  /\ UNCHANGED <<dfMounted, userId, user, loading, dfGen, dfDone>>

\* The cleanup that removed handler h runs again.
ResizeTeardownAgain(h) ==
  /\ h \in wrRemoved
  /\ teardownRepeats < MaxRepeats
  /\ teardownRepeats' = teardownRepeats + 1
  /\ listeners' = wrCleanup(listeners, h)
  /\ UNCHANGED <<wrMounted, windowSize, innerSize, wrHandler, handlersCreated,
                 wrRemoved>>

\* The cleanup of run g of SubscriptionManager's effect runs again.
SubsTeardownAgain(g) ==
  LET c == smCleanup(subTimers, status, g, smMounted /\ g = smGen) IN
  /\ g \in smDisposed
  /\ teardownRepeats < MaxRepeats
  /\ teardownRepeats' = teardownRepeats + 1
  /\ subTimers' = c.timers
  /\ status' = c.status
  /\ UNCHANGED <<smMounted, subscriptions, smGen, smDisposed>>

\* Exercise13Complete: its children between a mount and the next unmount.
Exercise13Next ==
  \/ (StartPause /\ UNCHANGED <<counterVars, persistVars, fetchVars, boundaryVars, formVars, resizeVars, subsVars, teardownVars>>)
  \/ (\E b \in UserIds : ChangeUserId(b) /\ UNCHANGED <<counterVars, persistVars, timerVars, boundaryVars, formVars, resizeVars, subsVars, teardownVars>>)
  \/ (\E t \in dfTimers : FetchTimeout(t) /\ UNCHANGED <<counterVars, persistVars, timerVars, boundaryVars, formVars, resizeVars, subsVars, teardownVars>>)
  \/ (\E size \in Sizes : WindowResize(size) /\ UNCHANGED <<counterVars, persistVars, timerVars, fetchVars, boundaryVars, formVars, subsVars, teardownVars>>)
  \/ (\E t \in subTimers : SubTimeout(t) /\ UNCHANGED <<counterVars, persistVars, timerVars, fetchVars, boundaryVars, formVars, resizeVars, teardownVars>>)
  \/ (UnmountAll /\ UNCHANGED <<counterVars, persistVars, boundaryVars, formVars, teardownVars>>)
  \/ (MountAll /\ UNCHANGED <<counterVars, persistVars, boundaryVars, formVars, teardownVars>>)

TeardownNext ==
  \/ (StartPause /\ UNCHANGED <<counterVars, persistVars, fetchVars, boundaryVars, formVars, resizeVars, subsVars, teardownVars>>)
  \/ (\E b \in UserIds : ChangeUserId(b) /\ UNCHANGED <<counterVars, persistVars, timerVars, boundaryVars, formVars, resizeVars, subsVars, teardownVars>>)
  \/ (\E t \in dfTimers : FetchTimeout(t) /\ UNCHANGED <<counterVars, persistVars, timerVars, boundaryVars, formVars, resizeVars, subsVars, teardownVars>>)
  \/ (\E size \in Sizes : WindowResize(size) /\ UNCHANGED <<counterVars, persistVars, timerVars, fetchVars, boundaryVars, formVars, subsVars, teardownVars>>)
  \/ (\E t \in subTimers : SubTimeout(t) /\ UNCHANGED <<counterVars, persistVars, timerVars, fetchVars, boundaryVars, formVars, resizeVars, teardownVars>>)
  \/ (UnmountAll /\ UNCHANGED <<counterVars, persistVars, boundaryVars, formVars, teardownVars>>)
  \/ (MountAll /\ UNCHANGED <<counterVars, persistVars, boundaryVars, formVars, teardownVars>>)
  \/ (\E h \in tornDown : TimerTeardownAgain(h) /\ UNCHANGED <<counterVars, persistVars, fetchVars, boundaryVars, formVars, resizeVars, subsVars>>)
  \/ (\E g \in dfAborted : FetchTeardownAgain(g) /\ UNCHANGED <<counterVars, persistVars, timerVars, boundaryVars, formVars, resizeVars, subsVars>>)
  \/ (\E h \in wrRemoved : ResizeTeardownAgain(h) /\ UNCHANGED <<counterVars, persistVars, timerVars, fetchVars, boundaryVars, formVars, subsVars>>)
  \/ (\E g \in smDisposed : SubsTeardownAgain(g) /\ UNCHANGED <<counterVars, persistVars, timerVars, fetchVars, boundaryVars, formVars, resizeVars>>)

(***************************************************************************)
(* Exercise 4.2: ErrorBoundary                                             *)
(*                                                                         *)
(* When a child throws while rendering, React calls the static             *)
(* getDerivedStateFromError of the nearest boundary, commits the fallback, *)
(* calls componentDidCatch and renders the setState it makes, all before   *)
(* the next event is handled.                                              *)
(***************************************************************************)
Sections == {"section1", "section2", "section3"}
Boundaries == {"demo"} \cup Sections

NoError == "<null>"
SimulatedError == "Error: This is a simulated error from BuggyComponent"

\* constructor: this.state = { hasError: false, error: null, errorInfo: null,
\* errorCount: 0 } (errorInfo is set and cleared together with error)
initialState == [hasError |-> FALSE, error |-> NoError, errorCount |-> 0]

getDerivedStateFromError(st) == [st EXCEPT !.hasError = TRUE]

\* componentDidCatch without the increment of errorCount.
componentDidCatch_nocount(st, error) == [st EXCEPT !.error = error]

\* componentDidCatch: setState(prevState => ({ error, errorInfo,
\* errorCount: prevState.errorCount + 1 }))
componentDidCatch(st, error) ==
  [st EXCEPT !.error = error, !.errorCount = @ + 1]

\* resetError: setState({ hasError: false, error: null, errorInfo: null })
resetError(st) == [st EXCEPT !.hasError = FALSE, !.error = NoError]

BuggyComponent(shouldErr) ==
  IF shouldErr THEN [threw |-> TRUE, error |-> SimulatedError]
  ELSE [threw |-> FALSE, error |-> NoError]

\* The render of an ErrorBoundary in state st around
\* <BuggyComponent shouldError={shouldErr} />: the fallback when hasError,
\* else the child; a child that throws is caught.
renderBoundary(st, shouldErr) ==
  IF st.hasError
  THEN [state |-> st, shown |-> "fallback", caught |-> 0]
  ELSE IF BuggyComponent(shouldErr).threw
  THEN [state |-> componentDidCatch(getDerivedStateFromError(st),
                                    BuggyComponent(shouldErr).error),
        shown |-> "fallback", caught |-> 1]
  ELSE [state |-> st, shown |-> "child", caught |-> 0]

\* A key made of every flag of the example.
boundaryKey_allFlags(section, errs) == <<section, errs>>

\* key={`section1-${errors.section1}`}: React unmounts the boundary and
\* mounts a new one when its key changes.
boundaryKey(section, errs) == <<section, errs[section]>>

\* the shouldError prop of the BuggyComponent inside boundary b
ShouldErrorOf(b, flag, errs) == IF b = "demo" THEN flag ELSE errs[b]

\* ErrorBoundaryDemo: setShouldError(!shouldError); the demo re-renders.
ToggleErrorDemo ==
  LET r == renderBoundary(boundary["demo"], ~shouldError) IN
  /\ r.state.errorCount <= MaxErrors
  /\ shouldError' = ~shouldError
  /\ boundary' = [boundary EXCEPT !["demo"] = r.state]
  /\ rendered' = [rendered EXCEPT !["demo"] = r.shown]
  /\ caught' = [caught EXCEPT !["demo"] = @ + r.caught]
  /\ UNCHANGED errors

\* A click on Try Again in the fallback of boundary b: resetError, then the
\* boundary renders its child again.
TryAgain(b) ==
  LET r == renderBoundary(resetError(boundary[b]),
                          ShouldErrorOf(b, shouldError, errors)) IN
  /\ rendered[b] = "fallback"
  /\ r.state.errorCount <= MaxErrors
  /\ boundary' = [boundary EXCEPT ![b] = r.state]
  /\ rendered' = [rendered EXCEPT ![b] = r.shown]
  /\ caught' = [caught EXCEPT ![b] = @ + r.caught]
  /\ UNCHANGED <<shouldError, errors>>

\* AdvancedErrorBoundaryExample: toggleError(section); the example
\* re-renders its three sections; a boundary whose key changed is replaced
\* by a new instance.
toggleError(section) ==
  LET errs == [errors EXCEPT ![section] = ~@]
      remount(k) == boundaryKey(k, errs) # boundaryKey(k, errors)
      r(k) == renderBoundary(IF remount(k) THEN initialState ELSE boundary[k],
                             errs[k]) IN
  /\ errors' = errs
  /\ boundary' = [b \in Boundaries |->
                    IF b \in Sections THEN r(b).state ELSE boundary[b]]
  /\ rendered' = [b \in Boundaries |->
                    IF b \in Sections THEN r(b).shown ELSE rendered[b]]
  /\ caught' = [b \in Boundaries |->
                  IF b \notin Sections THEN caught[b]
                  ELSE IF remount(b) THEN r(b).caught
                  ELSE caught[b] + r(b).caught]
  /\ UNCHANGED shouldError

BoundaryNext ==
  \/ (ToggleErrorDemo /\ UNCHANGED <<counterVars, persistVars, timerVars, fetchVars, formVars, resizeVars, subsVars, teardownVars>>)
  \/ (\E b \in Boundaries : TryAgain(b) /\ UNCHANGED <<counterVars, persistVars, timerVars, fetchVars, formVars, resizeVars, subsVars, teardownVars>>)
  \/ (\E section \in Sections : toggleError(section) /\ UNCHANGED <<counterVars, persistVars, timerVars, fetchVars, formVars, resizeVars, subsVars, teardownVars>>)

(***************************************************************************)
(* Exercise 4.1: RegistrationForm, rendered by Exercise41Complete with an  *)
(* onSubmit that logs its argument.                                        *)
(***************************************************************************)
Fields == {"email", "password", "confirmPassword", "agreeToTerms"}

\* what the model types into each field
FieldValues(name) ==
  CASE name = "email"           -> {"", "a@b", "a@b.co"}
    [] name = "password"        -> {"", "1234567", "12345678"}
    [] name = "confirmPassword" -> {"", "12345678"}
    [] name = "agreeToTerms"    -> BOOLEAN

EmptyForm ==
  [email |-> "", password |-> "", confirmPassword |-> "", agreeToTerms |-> FALSE]

NoErrors == [name \in Fields |-> ""]

\* /^[^\s@]+@[^\s@]+\.[^\s@]+$/.test(email), on the addresses of FieldValues
EmailFormat(email) == email \in {"a@b.co"}

validateForm(data) ==
  [name \in Fields |->
     CASE name = "email" ->
            IF data.email = "" THEN "Email is required"
            ELSE IF ~EmailFormat(data.email) THEN "Invalid email format"
            ELSE ""
       [] name = "password" ->
            IF data.password = "" THEN "Password is required"
            ELSE IF Len(data.password) < 8
            THEN "Password must be at least 8 characters"
            ELSE ""
       [] name = "confirmPassword" ->
            IF data.password # data.confirmPassword
            THEN "Passwords do not match" ELSE ""
       [] name = "agreeToTerms" ->
            IF ~data.agreeToTerms THEN "You must agree to the terms" ELSE ""]

\* handleChange: the field takes the value; the error of the field is cleared.
handleChange(name, value) ==
  /\ value # formData[name]
  /\ formData' = [formData EXCEPT ![name] = value]
  /\ formErrors' = IF formErrors[name] # ""
                   THEN [formErrors EXCEPT ![name] = ""] ELSE formErrors
  /\ formEvent' = "change"
  /\ UNCHANGED <<isSubmitting, submitSuccess, request, successTimers,
                 onSubmitCalls, submits>>

\* handleSubmit up to its await.  The submit button is disabled while
\* isSubmitting, so no submit event arrives then.
hasErrors_never(newErrors) == FALSE

\* Object.keys(newErrors).length > 0
hasErrors(newErrors) == newErrors # NoErrors

handleSubmit ==
  LET newErrors == validateForm(formData) IN
  /\ ~isSubmitting
  /\ submitSuccess' = FALSE
  /\ formEvent' = "submit"
  /\ IF hasErrors(newErrors)
     THEN /\ formErrors' = newErrors
          /\ UNCHANGED <<isSubmitting, request, submits>>
     ELSE /\ submits < MaxSubmits
          /\ isSubmitting' = TRUE
          /\ request' = <<formData>>
          /\ submits' = submits + 1
          /\ UNCHANGED formErrors
  /\ UNCHANGED <<formData, successTimers, onSubmitCalls>>

\* The rest of handleSubmit that leaves the fields as they are.
afterAwait_noReset(data) ==
  [onSubmit |-> data, submitSuccess |-> TRUE, formData |-> data]

\* The rest of handleSubmit, run with the formData of its closure:
\* onSubmit?.(formData); setSubmitSuccess(true); setFormData({...empty})
afterAwait(data) ==
  [onSubmit |-> data, submitSuccess |-> TRUE, formData |-> EmptyForm]

\* The 1500 ms timeout resolves the awaited promise; handleSubmit resumes,
\* sets the 3 s timer and, in finally, setIsSubmitting(false).
RequestResolved ==
  /\ request # <<>>
  /\ LET r == afterAwait(request[1]) IN
       /\ onSubmitCalls' = Append(onSubmitCalls, r.onSubmit)
       /\ submitSuccess' = r.submitSuccess
       /\ formData' = r.formData
  /\ successTimers' = successTimers \cup {submits}
  /\ isSubmitting' = FALSE
  /\ request' = <<>>
  /\ formEvent' = "resolved"
  /\ UNCHANGED <<formErrors, submits>>

\* The 3 s timer of submit n fires: setSubmitSuccess(false).  The timers
\* have the same delay, so they fire in the order they were set.
SuccessTimeout(n) ==
  /\ n \in successTimers
  /\ \A m \in successTimers : n <= m
  /\ successTimers' = successTimers \ {n}
  /\ submitSuccess' = FALSE
  /\ formEvent' = "timeout"
  /\ UNCHANGED <<formData, formErrors, isSubmitting, request, onSubmitCalls,
                 submits>>

FormNext ==
  \/ (\E name \in Fields : \E value \in FieldValues(name) :
        handleChange(name, value) /\ UNCHANGED <<counterVars, persistVars, timerVars, fetchVars, boundaryVars, resizeVars, subsVars, teardownVars>>)
  \/ (handleSubmit /\ UNCHANGED <<counterVars, persistVars, timerVars, fetchVars, boundaryVars, resizeVars, subsVars, teardownVars>>)
  \/ (RequestResolved /\ UNCHANGED <<counterVars, persistVars, timerVars, fetchVars, boundaryVars, resizeVars, subsVars, teardownVars>>)
  \/ (\E n \in successTimers : SuccessTimeout(n) /\ UNCHANGED <<counterVars, persistVars, timerVars, fetchVars, boundaryVars, resizeVars, subsVars, teardownVars>>)

(***************************************************************************)
(* Specifications.  Each starts from the state its exercise has once it is *)
(* on screen: the counter at 0, no persistent cell mounted yet, and        *)
(* Exercise13Complete mounted with its children's first effects run.       *)
(***************************************************************************)
InitLab ==
  /\ count = 0 /\ updateQueue = <<>> /\ calls = <<>>
  /\ view = [name \in ConsumerSet |-> renderConsumer(name, 0)] /\ notified = <<>>
  /\ renderCount = [name \in ConsumerSet |-> 0]
  /\ lastUse = [inside |-> TRUE,
                result |-> useCounter(useContext(TRUE, providerValue(0)))]
  /\ storage = [k \in Keys |-> NULL] /\ storageMode = "ok" /\ cellOpen = FALSE
  /\ cellKey = "todos" /\ state = "UNDEFINED" /\ effectPending = FALSE
  /\ lastOp = "none" /\ openItem = NULL /\ consoleError = "none"
  /\ crashed = FALSE /\ durable = [k \in Keys |-> NONE] /\ sets = 0
  /\ reads = 0 /\ external = 0
  /\ showTimer = TRUE /\ mounted = TRUE /\ seconds = 0 /\ isActive = FALSE
  /\ logs = <<>> /\ title = TimerTitle(0) /\ intervals = {} /\ e1Handle = 0
  /\ timersCreated = 0 /\ timerPending = FALSE /\ tornDown = {} /\ lastTick = 0
  /\ activation = <<1, 4>> /\ disposal = <<>>
  /\ titleWrites = <<TimerTitle(0)>> /\ ranEffects = {1, 2, 3, 4}
  /\ logsQueue = <<>>
  /\ dfMounted = TRUE /\ userId = 1 /\ user = 0 /\ loading = TRUE
  /\ dfTimers = {[gen |-> 1, uid |-> 1]} /\ dfAborted = {} /\ dfGen = 1
  /\ dfDone = {}
  /\ shouldError = FALSE /\ errors = [section \in Sections |-> FALSE]
  /\ boundary = [b \in Boundaries |-> initialState]
  /\ rendered = [b \in Boundaries |-> "child"]
  /\ caught = [b \in Boundaries |-> 0]
  /\ formData = EmptyForm /\ formErrors = NoErrors /\ isSubmitting = FALSE
  /\ submitSuccess = FALSE /\ request = <<>> /\ successTimers = {}
  /\ onSubmitCalls = <<>> /\ submits = 0 /\ formEvent = "none"
  /\ wrMounted = TRUE /\ windowSize = "1024x768" /\ innerSize = "1024x768"
  /\ listeners = {1} /\ wrHandler = 1 /\ handlersCreated = 1 /\ wrRemoved = {}
  /\ smMounted = TRUE /\ subscriptions = <<>> /\ status = "subscribing"
  /\ subTimers = smSetup({}, 1) /\ smGen = 1 /\ smDisposed = {}
  /\ teardownRepeats = 0

InitPersist ==
  /\ count = 0 /\ updateQueue = <<>> /\ calls = <<>>
  /\ view = [name \in ConsumerSet |-> renderConsumer(name, 0)] /\ notified = <<>>
  /\ renderCount = [name \in ConsumerSet |-> 0]
  /\ lastUse = [inside |-> TRUE,
                result |-> useCounter(useContext(TRUE, providerValue(0)))]
  /\ storage \in [Keys -> {NULL} \cup ForeignText] /\ storageMode = "ok"
  /\ cellOpen = FALSE
  /\ cellKey = "todos" /\ state = "UNDEFINED" /\ effectPending = FALSE
  /\ lastOp = "none" /\ openItem = NULL /\ consoleError = "none"
  /\ crashed = FALSE /\ durable = [k \in Keys |-> NONE] /\ sets = 0
  /\ reads = 0 /\ external = 0
  /\ showTimer = TRUE /\ mounted = TRUE /\ seconds = 0 /\ isActive = FALSE
  /\ logs = <<>> /\ title = TimerTitle(0) /\ intervals = {} /\ e1Handle = 0
  /\ timersCreated = 0 /\ timerPending = FALSE /\ tornDown = {} /\ lastTick = 0
  /\ activation = <<1, 4>> /\ disposal = <<>>
  /\ titleWrites = <<TimerTitle(0)>> /\ ranEffects = {1, 2, 3, 4}
  /\ logsQueue = <<>>
  /\ dfMounted = TRUE /\ userId = 1 /\ user = 0 /\ loading = TRUE
  /\ dfTimers = {[gen |-> 1, uid |-> 1]} /\ dfAborted = {} /\ dfGen = 1
  /\ dfDone = {}
  /\ shouldError = FALSE /\ errors = [section \in Sections |-> FALSE]
  /\ boundary = [b \in Boundaries |-> initialState]
  /\ rendered = [b \in Boundaries |-> "child"]
  /\ caught = [b \in Boundaries |-> 0]
  /\ formData = EmptyForm /\ formErrors = NoErrors /\ isSubmitting = FALSE
  /\ submitSuccess = FALSE /\ request = <<>> /\ successTimers = {}
  /\ onSubmitCalls = <<>> /\ submits = 0 /\ formEvent = "none"
  /\ wrMounted = TRUE /\ windowSize = "1024x768" /\ innerSize = "1024x768"
  /\ listeners = {1} /\ wrHandler = 1 /\ handlersCreated = 1 /\ wrRemoved = {}
  /\ smMounted = TRUE /\ subscriptions = <<>> /\ status = "subscribing"
  /\ subTimers = smSetup({}, 1) /\ smGen = 1 /\ smDisposed = {}
  /\ teardownRepeats = 0

SpecCounter == InitLab /\ [][CounterNext]_vars
SpecPersist == InitPersist /\ [][PersistNext]_vars
SpecPersistLive == SpecPersist /\ WF_vars(PersistEffect /\ UNCHANGED <<counterVars, timerVars, fetchVars, boundaryVars, formVars, resizeVars, subsVars, teardownVars>>)
SpecPersistExt == InitLab /\ [][PersistNext \/ PersistExtNext]_vars
SpecTimer == InitLab /\ [][TimerNext]_vars
SpecFetch == InitLab /\ [][FetchNext]_vars
SpecFetchLive == SpecFetch /\ WF_vars(\E t \in dfTimers : FetchTimeout(t) /\ UNCHANGED <<counterVars, persistVars, timerVars, boundaryVars, formVars, resizeVars, subsVars, teardownVars>>)
SpecTeardown == InitLab /\ [][TeardownNext]_vars
SpecExercise13 == InitLab /\ [][Exercise13Next]_vars
SpecBoundary == InitLab /\ [][BoundaryNext]_vars
SpecForm == InitLab /\ [][FormNext]_vars
SpecFormLive == SpecForm /\ WF_vars(RequestResolved /\ UNCHANGED <<counterVars, persistVars, timerVars, fetchVars, boundaryVars, resizeVars, subsVars, teardownVars>>)

(***************************************************************************)
(* Properties of Exercise 1.1                                              *)
(***************************************************************************)
\* What each action is meant to do to the counter.
CallResult(prev, c) ==
  CASE c.op = "increment"      -> prev + 1
    [] c.op = "decrement"      -> prev - 1
    [] c.op = "reset"          -> 0
    [] c.op = "setCustomCount" -> c.value

RECURSIVE FoldCalls(_, _)
FoldCalls(h, acc) ==
  IF h = <<>> THEN acc ELSE FoldCalls(Tail(h), CallResult(acc, Head(h)))

\* C1: the count that the next render commits (the committed count once the
\* queue is empty) is the left fold, from 0 and in call order, of every
\* counter action called so far, also when several were called in one tick.
C1_FoldInCallOrder ==
  processUpdateQueue(updateQueue, count) = FoldCalls(calls, 0)

\* Two calls of one tick are queued on top of an earlier, rendered, count.
C1_Witness ==
  /\ Len(updateQueue) >= 2
  /\ count # 0
  /\ \E i \in 1..Len(calls) : calls[i].op = "increment"

(***************************************************************************)
(* Properties of Exercise 1.2                                              *)
(***************************************************************************)
\* the text the persist effect leaves in the storage for a value
RecordOf(v) == DOMString(JSON_stringify(v).result)

\* the values JSON represents: JSON.parse(JSON.stringify(v)) gives v back
\* (not undefined, which has no JSON text, nor NaN, whose text is null)
JSONRepresentable(v) ==
  /\ ~JSON_stringify(v).threw
  /\ JSON_stringify(v).result # UNDEF
  /\ ~JSON_parse(JSON_stringify(v).result).threw
  /\ JSON_parse(JSON_stringify(v).result).value = v

\* a step that mounts a fresh cell on a key whose last persist succeeded
ReopenAfterPersist ==
  /\ ~cellOpen /\ cellOpen'
  /\ storageMode = "ok"
  /\ durable[cellKey'] # NONE

\* C2 as stated: for every value v the round trip set(v), persist, fresh
\* open gives v back as the initial state.
C2_RoundTripEveryValue ==
  [][ReopenAfterPersist => state' = durable[cellKey']]_vars

\* C2 as amended: the round trip gives back every value v that JSON
\* represents (not undefined, not NaN).
C2_RoundTripJSON ==
  [][(ReopenAfterPersist /\ JSONRepresentable(durable[cellKey']))
       => state' = durable[cellKey']]_vars

\* A fresh cell has just restored a value that is not its initialValue.
C2_Witness ==
  /\ cellOpen /\ lastOp = "open" /\ effectPending
  /\ durable[cellKey] # NONE
  /\ state = durable[cellKey]
  /\ state # initialValue(cellKey)

\* C3: once a clear and the effect it schedules have completed, the state
\* is the default and the storage holds no entry under the key.
C3_ClearRemovesRecord ==
  (cellOpen /\ lastOp = "clear" /\ ~effectPending /\ storageMode = "ok")
    => (state = initialValue(cellKey) /\ storage[cellKey] = NULL)

\* what the claim expects of an open that found `item`
C4_Expected(item, emptyIsAbsent) ==
  IF item = THREW
  THEN state = initialValue(cellKey) /\ consoleError = "read"
  ELSE IF item = NULL \/ (emptyIsAbsent /\ item = "")
  THEN state = initialValue(cellKey) /\ consoleError = "none"
  ELSE IF JSON_parse(item).threw
  THEN state = initialValue(cellKey) /\ consoleError = "read"
  ELSE state = JSON_parse(item).value /\ consoleError = "none"

JustOpened == cellOpen /\ lastOp = "open" /\ effectPending

C5_WriteFailureKeepsState ==
  [][(cellOpen /\ effectPending /\ ~effectPending'
        /\ WriteFails(state, storageMode))
       => (state' = state /\ storage' = storage /\ consoleError' = "write"
           /\ ~crashed' /\ cellOpen')]_vars

\* A set was followed by a failed write: the state is new, the record is not.
C5_Witness ==
  /\ cellOpen /\ lastOp = "set" /\ ~effectPending
  /\ consoleError = "write"
  /\ state = "ONE_TODO"
  /\ storage[cellKey] # RecordOf("ONE_TODO")

Consistent == cellOpen => storage[cellKey] = RecordOf(state)

\* C6: in every execution in which no write fails (sets stop because their
\* number is bounded) the record under the key eventually is, and stays,
\* the serialization of the in-memory value.
C6_EventuallyConsistent ==
  [](consoleError # "write") => <>[]Consistent

\* The last set allowed has been persisted.
C6_Witness ==
  /\ cellOpen /\ sets = MaxSets /\ lastOp = "set" /\ ~effectPending
  /\ consoleError = "none"
  /\ state = "ONE_TODO"
  /\ storage[cellKey] = RecordOf("ONE_TODO")
(***************************************************************************)
(* Properties of Exercise 1.3                                              *)
(***************************************************************************)
\* C7: only the most recently issued fetch of a mounted DataFetcher sets
\* user and loading: the callback of a fetch superseded by a change of
\* userId, or cut off by the unmount, never does.
C7_OnlyLatestFetchCompletes ==
  [][\A g \in dfDone' \ dfDone : dfMounted /\ g = dfGen]_vars

\* A fetch was superseded while in flight and the latest one has completed.
C7_Witness ==
  /\ dfMounted /\ dfGen \in dfDone
  /\ \E g \in dfAborted : g \notin dfDone /\ g < dfGen
  /\ user = userId /\ ~loading

\* C8: at most one interval of Effect 1 is outstanding, and every
\* outstanding interval is the one the registered cleanup will clear; none
\* is outstanding while the timer is paused or unmounted.
C8_OneLiveInterval ==
  /\ Cardinality(intervals) <= 1
  /\ intervals = (IF TimerMounted /\ isActive THEN {e1Handle} ELSE {})
  /\ (TimerMounted /\ isActive) => e1Handle # 0

\* The timer was started a second time: its first interval is gone.
C8_Witness ==
  /\ TimerMounted /\ isActive
  /\ tornDown # {}
  /\ intervals = {e1Handle}
  /\ e1Handle \notin tornDown

\* C9: the callback of an interval whose cleanup has run (Pause, Reset or
\* unmount) never runs again, so it never increments seconds again.
C9_NoTickAfterTeardown ==
  [][\A i \in tornDown : ~Tick(i) /\ ~(lastTick' = i /\ seconds' = seconds + 1)]_vars

\* A second interval ticks after the first was torn down by Pause or Reset.
C9_Witness ==
  /\ TimerMounted /\ seconds > 0
  /\ lastTick # 0 /\ lastTick \notin tornDown
  /\ tornDown # {}

RECURSIVE Reverse(_)
Reverse(seq) == IF seq = <<>> THEN <<>> ELSE Append(Reverse(Tail(seq)), Head(seq))

Disposed == ~TimerMounted /\ disposal # <<>>

\* C10 as stated: the unmount runs the cleanup of every active effect once,
\* the most recently activated effect first.
C10_DisposalReverseActivation ==
  Disposed => disposal = Reverse(activation)

\* C10 as amended: the unmount runs the cleanup of every active effect once,
\* in the order the effects are declared: Effect 1 (the interval is cleared)
\* before Effect 4 (the title is reset).
C10_DisposalDeclarationOrder ==
  Disposed =>
    /\ disposal = <<1, 4>>
    /\ Ran(disposal) = Ran(activation)
    /\ intervals = {}
    /\ title = LabTitle

\* A running timer was unmounted after a tick: Effect 4 was activated last.
C10_Witness ==
  /\ Disposed
  /\ activation = <<1, 4>>
  /\ lastTick # 0 /\ lastTick \in tornDown

\* C11: a re-run of the title effect runs the cleanup of the superseded
\* setup before the new setup: the reset to 'React Lab 5' precedes the write
\* of 'Timer: <seconds>s'.  So once the effects of a render are flushed the
\* title of the mounted timer shows the current seconds, and after the
\* unmount it is 'React Lab 5'.
C11_TeardownBeforeSetup ==
  /\ (TimerMounted /\ 4 \in ranEffects)
       => titleWrites \in {<<TimerTitle(seconds)>>,
                           <<LabTitle, TimerTitle(seconds)>>}
  /\ (TimerMounted /\ ~timerPending) => title = TimerTitle(seconds)
  /\ ~TimerMounted => title = LabTitle

\* The title effect has re-run for a tick: reset first, new title last.
C11_Witness ==
  /\ TimerMounted /\ ~timerPending /\ seconds > 0
  /\ titleWrites = <<LabTitle, TimerTitle(seconds)>>
  /\ title = TimerTitle(seconds)

\* C12: an effect is cleaned up and re-run only when one of its dependencies
\* changed: while the timer stays mounted, a step that leaves isActive as it
\* was (a tick, its flush, a Reset of a paused timer) neither clears nor
\* creates an interval, and a step that leaves seconds as it was and does not
\* flush a tick (Start, Pause, a Reset at 0) runs neither the log effect nor
\* the title effect: no log entry is appended, no title is written.
C12_RerunOnlyOnChangedDeps ==
  [][(TimerMounted /\ TimerMounted') =>
       /\ (isActive' = isActive) =>
            /\ 1 \notin ranEffects'
            /\ UNCHANGED <<intervals, e1Handle, tornDown, timersCreated>>
       /\ (seconds' = seconds /\ ~timerPending) =>
            /\ ranEffects' \cap {2, 4} = {}
            /\ titleWrites' = <<>> /\ title' = title
            /\ logs' \in {logs, <<>>}]_vars

\* Two ticks were flushed on the first interval, then the timer was paused:
\* the ticks left the interval alone, the pause left logs and title alone.
C12_Witness ==
  /\ TimerMounted /\ ~isActive /\ seconds >= 2
  /\ ranEffects = {1, 3}
  /\ timersCreated = 1 /\ tornDown = {1}
  /\ Len(logs) = seconds
  /\ title = TimerTitle(seconds)

\* the user shown is not the one requested, and nothing says so
Stale == dfMounted /\ ~loading /\ user # userId

\* C23: if from some point on DataFetcher stays mounted and userId stays u,
\* then eventually loading is false and the user shown has id u, for good;
\* and a state with loading false and user.id different from userId never
\* lasts forever.
C23_ConvergesToRequestedUser ==
  /\ \A u \in UserIds :
       <>[](dfMounted /\ userId = u) => <>[](~loading /\ user = u)
  /\ []<>~Stale

\* The user id was changed three times, each change superseding the fetch
\* in flight, and the last fetch has completed.
C23_Witness ==
  /\ dfMounted /\ dfGen = MaxFetches /\ dfTimers = {}
  /\ ~loading /\ user = userId /\ userId # 1
  /\ Cardinality(dfAborted) = MaxFetches - 1

\* TimerComponent is mounted, no effect is pending and no update is queued
Quiescent == TimerMounted /\ ~timerPending /\ logsQueue = <<>>

\* C24: in every quiescent state of TimerComponent logs has exactly
\* `seconds` entries and its i-th entry records the value i; a Reset leaves
\* seconds = 0, logs empty and isActive false.
C24_LogsFollowSeconds ==
  /\ [](Quiescent =>
          /\ Len(logs) = seconds
          /\ \A i \in 1..Len(logs) : logs[i] = i)
  /\ [][(TimerMounted /\ TimerMounted' /\ seconds # 0 /\ seconds' = 0
           /\ Quiescent') =>
          (logs' = <<>> /\ ~isActive')]_vars

C18_UseCounterNeedsProvider ==
  IF lastUse.inside
  THEN /\ ~lastUse.result.threw
       /\ lastUse.result.context = providerValue(count)
  ELSE /\ lastUse.result.threw
       /\ lastUse.result.message = "useCounter must be used within CounterProvider"
       /\ lastUse.result.context = defaultValue

\* useCounter was called outside a provider while a provider held a count.
C18_Witness ==
  /\ ~lastUse.inside /\ lastUse.result.threw
  /\ count # 0

\* the consumer whose handler calls the action
CallerOf(op) ==
  IF op = "setCustomCount" THEN "CounterAdvancedDisplay" ELSE "CounterControls"

\* C19: in every committed render all consumers under the provider read the
\* same count, the provider's: CounterDisplay shows it, CounterAdvancedDisplay
\* shows the square of what CounterDisplay shows; once the actions called
\* from any of the consumers are rendered, that count is their result.
C19_ConsumersShareCount ==
  /\ \A name \in ConsumerSet : view[name].count = count
  /\ view["CounterDisplay"].text = count
  /\ view["CounterAdvancedDisplay"].text
       = view["CounterDisplay"].text * view["CounterDisplay"].text
  /\ updateQueue = <<>> =>
       \A name \in ConsumerSet : view[name].count = FoldCalls(calls, 0)

\* Actions of two different consumers were rendered; the square shown differs
\* from the count shown.
C19_Witness ==
  /\ updateQueue = <<>>
  /\ {CallerOf(calls[i].op) : i \in 1..Len(calls)}
       = {"CounterControls", "CounterAdvancedDisplay"}
  /\ view["CounterDisplay"].text = 3
  /\ view["CounterAdvancedDisplay"].text = 9

(***************************************************************************)
(* Properties of Exercise 1.2 with other writers of the storage            *)
(***************************************************************************)
\* C15: the hook reads the storage once per cell, in the first render: no
\* set, re-render or persist step reads it again, the state changes only by
\* setState, and a write to the entry by another page leaves the state of
\* the mounted cell as it is.
C15_ReadOnceAtOpen ==
  [][/\ (~cellOpen /\ cellOpen') => reads' = 1
     /\ (cellOpen /\ cellOpen') =>
          /\ reads' = reads
          /\ (state' # state) => lastOp' \in {"set", "clear"}
     /\ (external' # external) => (state' = state /\ reads' = reads)]_vars

\* Another page replaced the record of a mounted cell, which re-rendered
\* since: the cell still holds the value it had.
C15_Witness ==
  /\ cellOpen /\ lastOp = "render" /\ ~effectPending
  /\ reads = 1 /\ external > 0
  /\ state = "EMPTY_ARRAY"
  /\ storage[cellKey] = "[{\"id\":1}]"

(***************************************************************************)
(* Properties of WindowResizeListener and SubscriptionManager              *)
(***************************************************************************)
\* C25: while WindowResizeListener is mounted exactly one resize handler of
\* it is registered on window, the one its cleanup will remove; after the
\* unmount none is; so every handler a resize event calls belongs to the
\* mounted instance, and the windowSize of an unmounted instance never
\* changes.
C25_ScopedRegistration ==
  /\ [](listeners = IF wrMounted THEN {wrHandler} ELSE {})
  /\ [][/\ (innerSize' # innerSize) =>
             \A h \in listeners : wrMounted /\ h = wrHandler
        /\ (~wrMounted /\ ~wrMounted') => windowSize' = windowSize]_vars

\* The window was resized after the unmount: no handler is registered, the
\* handler of the instance was removed, and its windowSize is the old one.
C25_Witness ==
  /\ ~wrMounted /\ listeners = {} /\ wrHandler \in wrRemoved
  /\ windowSize # innerSize

Topics == <<Topic(1), Topic(2), Topic(3)>>

Prefix(s, t) == Len(s) <= Len(t) /\ \A i \in 1..Len(s) : s[i] = t[i]

\* C26: subscriptions is always a prefix of [Topic A, Topic B, Topic C];
\* status is 'subscribed' only when the three topics are present; once the
\* cleanup has run no timeout of that run is pending, no callback of it
\* runs, and no topic is appended to the list of the unmounted instance.
C26_SubscriptionsPrefix ==
  /\ [](/\ Prefix(subscriptions, Topics)
        /\ status = "subscribed" => subscriptions = Topics
        /\ \A t \in subTimers : t.gen \notin smDisposed)
  /\ [][/\ \A t \in subTimers \ subTimers' : t.gen \notin smDisposed
        /\ (~smMounted /\ ~smMounted') => subscriptions' = subscriptions]_vars

\* The cleanup ran after the second topic arrived: the third timeout was
\* cleared, the list is [Topic A, Topic B] and the status is not
\* 'subscribed'.
C26_Witness ==
  /\ ~smMounted /\ smGen \in smDisposed /\ subTimers = {}
  /\ subscriptions = <<Topic(1), Topic(2)>> /\ status = "subscribing"

(***************************************************************************)
(* Properties of Exercise 4.2                                              *)
(***************************************************************************)
\* the step keeps the ErrorBoundary instance of b (its key is unchanged)
SameInstance(b) ==
  b = "demo" \/ boundaryKey(b, errors') = boundaryKey(b, errors)

\* C16: errorCount of an ErrorBoundary instance never decreases, grows by
\* exactly one with each error the boundary catches, and is left as it is by
\* resetError (a step that catches nothing changes no errorCount).
C16_ErrorCountMonotonic ==
  [][\A b \in Boundaries : SameInstance(b) =>
       /\ boundary'[b].errorCount >= boundary[b].errorCount
       /\ boundary'[b].errorCount - boundary[b].errorCount
            = caught'[b] - caught[b]
       /\ caught'[b] - caught[b] \in {0, 1}]_vars

\* The demo's boundary caught two errors and was then reset with the child
\* fixed: it shows the child and still counts 2.
C16_Witness ==
  /\ ~boundary["demo"].hasError /\ rendered["demo"] = "child"
  /\ boundary["demo"].errorCount = 2
  /\ caught["demo"] = 2

\* C17: toggling the error of one section changes neither the state
\* (hasError, error, errorCount) nor the rendered output of the boundary of
\* any other section.
C17_SectionsIsolated ==
  [][\A i \in Sections : errors'[i] # errors[i] =>
       \A j \in Sections \ {i} :
         /\ errors'[j] = errors[j]
         /\ boundary'[j] = boundary[j]
         /\ rendered'[j] = rendered[j]
         /\ caught'[j] = caught[j]]_vars

\* Section 1 is broken and was retried once, section 3 is broken, and
\* section 2 still shows its child.
C17_Witness ==
  /\ errors = [section \in Sections |-> section # "section2"]
  /\ boundary["section1"].hasError /\ boundary["section1"].errorCount = 2
  /\ boundary["section3"].hasError /\ boundary["section3"].errorCount = 1
  /\ ~boundary["section2"].hasError /\ rendered["section2"] = "child"

(***************************************************************************)
(* Properties of Exercise 4.1                                              *)
(***************************************************************************)
FormDatas ==
  [email : FieldValues("email"), password : FieldValues("password"),
   confirmPassword : FieldValues("confirmPassword"),
   agreeToTerms : FieldValues("agreeToTerms")]

ValidForms == {data \in FormDatas : validateForm(data) = NoErrors}

\* the submit of `data` has completed
Succeeded(data) ==
  /\ submitSuccess /\ ~isSubmitting
  /\ formData = EmptyForm
  /\ Len(onSubmitCalls) = submits
  /\ onSubmitCalls[submits] = data

RejectedSubmit == formEvent' = "submit" /\ validateForm(formData) # NoErrors

\* C21 as stated: a submit that validateForm rejects changes only the
\* errors: errors becomes exactly the failing fields, onSubmit is not called,
\* isSubmitting does not become true, formData is unchanged, and nothing
\* else of the form changes.
C21_RejectedSubmitOnlyErrors ==
  [][RejectedSubmit =>
       /\ formErrors' = validateForm(formData)
       /\ ~isSubmitting'
       /\ UNCHANGED <<formData, isSubmitting, submitSuccess, request,
                      successTimers, onSubmitCalls, submits>>]_vars

\* C21 as amended: a submit that validateForm rejects sets errors to exactly
\* the failing fields and hides the success message; onSubmit is not called,
\* no request is started, isSubmitting does not become true, and formData
\* and the pending timers are unchanged.
C21_RejectedSubmitErrorsAndMessage ==
  [][RejectedSubmit =>
       /\ formErrors' = validateForm(formData)
       /\ ~isSubmitting'
       /\ ~submitSuccess'
       /\ UNCHANGED <<formData, isSubmitting, request, successTimers,
                      onSubmitCalls, submits>>]_vars

\* A submit was rejected while the success message of an earlier submit was
\* showing: the errors are the failing fields, the message is hidden, its
\* timer is still pending, and no request was started.
C21_Witness ==
  /\ formEvent = "submit" /\ formErrors # NoErrors
  /\ formErrors = validateForm(formData)
  /\ ~isSubmitting /\ request = <<>> /\ ~submitSuccess
  /\ Len(onSubmitCalls) = 1 /\ submits = 1 /\ successTimers = {1}

\* C22: the success message is hidden only by the start of a submit or by
\* the 3 s timer of the submission that produced it (the latest one that
\* completed); the timer of an earlier submission never hides it.
C22_OnlyOwnTimerHides ==
  [][(submitSuccess /\ ~submitSuccess') =>
       \/ formEvent' = "submit"
       \/ (formEvent' = "timeout"
           /\ successTimers \ successTimers' = {Len(onSubmitCalls)})]_vars

(***************************************************************************)
(* Properties of the cleanups of Exercise 1.3                              *)
(***************************************************************************)
\* C14: running again the cleanup of an effect run that was already cleaned
\* up (clearInterval of the timer, clearTimeout and abort of DataFetcher,
\* removeEventListener of WindowResizeListener, the three clearTimeout and
\* the setStatus of SubscriptionManager) changes nothing: no timer, listener
\* or abort flag, and no state of a mounted component.
C14_TeardownIdempotent ==
  [][teardownRepeats' # teardownRepeats =>
       UNCHANGED <<timerVars, fetchVars, resizeVars, subsVars>>]_vars

\* Cleanups were run again while the components, mounted a second time, had
\* a live interval, a pending fetch, a registered listener and pending
\* subscription timeouts.
C14_Witness ==
  /\ teardownRepeats = MaxRepeats
  /\ mounted /\ tornDown # {} /\ dfAborted # {} /\ wrRemoved # {} /\ smDisposed # {}
  /\ intervals # {} /\ dfTimers # {} /\ listeners # {} /\ subTimers # {}
====
